---- MODULE Spec2Model ----
(***************************************************************************)
(* Model of the Moquegua alert pipeline:                                   *)
(*   src/src/get_alerts.py      get_moquegua_alerts, save_to_database, main *)
(*   src/src/geoidep_python.py  bulletin table, geometry fetch, registry    *)
(*   src/src/database.py        AlertDatabase                               *)
(*   src/app/streamlit_app.py   load_alerts (reader of the flat file)       *)
(*                                                                         *)
(* Strings that the code slices or parses are modelled by their parts:     *)
(*   - a date string is a record [k, d]: k = "date" (parses to day d),     *)
(*     k = "empty" (the empty string, which pd.to_datetime maps to NaT),   *)
(*     k = "garbage" (text pd.to_datetime raises on);                      *)
(*   - a ubigeo is the triple <<ccdd, ccpp, ccdi>> of its 2-char parts;    *)
(*   - a polygon is a closed axis-parallel rectangle on the integer grid.  *)
(***************************************************************************)
EXTENDS Integers, Sequences, FiniteSets, TLC

VARIABLES
    pc,                 \* position of the batch run
    today,              \* pd.Timestamp.now().normalize(), as a day number
    alerts_table,       \* get_alerts.py:39   raw bulletin table
    page,               \* what the request of the bulletin page came back with
    table_columns,      \* the columns of alerts_table
    active_alerts,      \* get_alerts.py:45
    moquegua_dists,     \* get_alerts.py:56-70 district registry after the join
    idx,                \* position of the for loop of get_alerts.py:79
    detailed_warnings,  \* get_alerts.py:75
    warnings_df,        \* the table get_moquegua_alerts returns
    fetch_log,          \* per processed alert: what the fetcher returned, what
                        \* was passed to sjoin, how many rows were appended
    csv_file,           \* data/alerts.csv: "absent" or the text written so far
    csv_todo,           \* lines to_csv has still to flush
    prev_table,         \* the complete file content before the current run
    reader_seen,        \* what the last read of the flat file returned
    runs,               \* number of runs of main started
    request,            \* the last geometry request: alert fields, (nro, year)
    sched,              \* scheduler.py: position of the scheduler process,
                        \* outcome of its last check, what the log holds
    alerts_history,     \* database.py:27-40
    affected_districts, \* database.py:43-52
    db_seq,             \* sqlite_sequence of alerts_history (AUTOINCREMENT)
    save_todo,          \* unique alerts save_to_database has still to store
    last_call           \* the last AlertDatabase call: input, kind, return value

vars == <<pc, today, alerts_table, page, table_columns, active_alerts, moquegua_dists, idx,
          detailed_warnings, warnings_df, fetch_log, csv_file, csv_todo,
          prev_table, reader_seen, runs, request, sched, alerts_history,
          affected_districts, db_seq, save_todo, last_call>>

matcher_vars == <<today, alerts_table, page, table_columns, active_alerts, moquegua_dists, idx,
                  detailed_warnings, warnings_df, fetch_log>>
file_vars == <<csv_file, csv_todo, prev_table>>
db_vars == <<alerts_history, affected_districts, db_seq, save_todo, last_call>>

\* ------------------------------------------------------------------ bounds
\* longest bulletin table the bulletin source returns in a single call of
\* get_moquegua_alerts
MaxAlerts == 2
\* runs of main in one behaviour
MaxRuns == 2
\* AlertDatabase calls in one behaviour of the store alone
MaxCalls == 3
\* longest text of an alert number / of an issue date given to the fetcher
MaxNroLen == 3
MaxEmisionLen == 5

\* ------------------------------------------------------------ small helpers
Range(s) == {s[i] : i \in 1..Len(s)}

RECURSIVE FlatMap(_, _)
\* concatenation of F[s[1]], F[s[2]], ... (F a function from elements to sequences)
FlatMap(F, s) ==
    IF s = <<>> THEN <<>> ELSE F[Head(s)] \o FlatMap(F, Tail(s))

SeqsUpTo(S, n) == UNION {[1..k -> S] : k \in 0..n}

\* --------------------------------------------------------------- dates
Days == {0, 1, 2}
Todays == {1, 2}
DateStr(d) == [k |-> "date", d |-> d]
EmptyStr == [k |-> "empty", d |-> 0]
GarbageStr == [k |-> "garbage", d |-> 0]
DateStrings == {DateStr(d) : d \in Days} \cup {EmptyStr, GarbageStr}

NaT == -1

\* pd.to_datetime on one string: a day number, NaT for the empty string
ToDatetime(s) ==
    IF s.k = "date" THEN s.d ELSE NaT

\* pd.to_datetime on a column raises (errors='raise') as soon as one entry
\* is not a date and not empty
ToDatetimeRaises(col) ==
    \E i \in 1..Len(col) : col[i].k = "garbage"

\* variant of GeTimestamp: a strict comparison, which drops an alert ending today
GeTimestampStrict(a, b) ==
    a # NaT /\ b # NaT /\ a > b

\* Timestamp comparison; every comparison with NaT is False
GeTimestamp(a, b) ==
    a # NaT /\ b # NaT /\ a >= b

\* -------------------------------------------------------------- alerts
Nros == {"001", "002"}
MkAlert(nro, inicio, fin) ==
    [aviso |-> "LLUVIA", nro |-> nro, emision |-> DateStr(0),
     inicio |-> inicio, fin |-> fin, nivel |-> "ROJO"]
AlertPool == {MkAlert(n, DateStr(0), f) : n \in Nros, f \in DateStrings}

\* ------------------------------------------------------------ geometry
Rect(x1, y1, x2, y2) ==
    [kind |-> "poly", x1 |-> x1, y1 |-> y1, x2 |-> x2, y2 |-> y2]
Corrupt == [kind |-> "corrupt", x1 |-> 0, y1 |-> 0, x2 |-> 0, y2 |-> 0]

Min(a, b) == IF a <= b THEN a ELSE b
Max(a, b) == IF a >= b THEN a ELSE b

\* variant of MakeValid: the geometry is passed on as it came
MakeValidNoop(g) ==
    g

\* GeoSeries.make_valid on one geometry: a ring given in the wrong
\* orientation is repaired, a valid one is unchanged
MakeValid(g) ==
    [g EXCEPT !.x1 = Min(g.x1, g.x2), !.x2 = Max(g.x1, g.x2),
              !.y1 = Min(g.y1, g.y2), !.y2 = Max(g.y1, g.y2)]

\* make_valid raises on a geometry GEOS cannot read
MakeValidRaises(feats) ==
    \E i \in 1..Len(feats) : feats[i].geometry.kind = "corrupt"

\* variant of Intersects: the interiors must overlap, a shared boundary does
\* not count
IntersectsInterior(g, h) ==
    /\ g.x1 < h.x2 /\ h.x1 < g.x2
    /\ g.y1 < h.y2 /\ h.y1 < g.y2

\* predicate='intersects': the closed sets share at least one point
Intersects(g, h) ==
    /\ g.x1 <= h.x2 /\ h.x1 <= g.x2
    /\ g.y1 <= h.y2 /\ h.y1 <= g.y2

\* ------------------------------------------------------ district registry
NaN == "<NaN>"

District(ccdd, ccpp, ccdi, name, geom) ==
    [ubigeo |-> <<ccdd, ccpp, ccdi>>, nombdist |-> name, geometry |-> geom]
Province(ccdd, ccpp, name) ==
    [ccdd |-> ccdd, ccpp |-> ccpp, nombprov |-> name]

\* what get_districts returns: three districts of region 18 and one of
\* another region that lies inside the same alert areas
AllDistricts ==
    << District("18", "01", "01", "MOQUEGUA", Rect(0, 0, 1, 1)),
       District("04", "01", "01", "AREQUIPA", Rect(0, 2, 1, 3)),
       District("18", "01", "06", "TORATA", Rect(2, 0, 3, 1)),
       District("18", "03", "01", "ILO", Rect(4, 0, 5, 1)) >>

\* what get_provinces may return: the regular table (with a repeated row),
\* a table that lacks province 1803, and a table that names province 1801
\* twice with different spellings
ProvincesRegular ==
    << Province("18", "01", "MARISCAL NIETO"), Province("04", "01", "AREQUIPA"),
       Province("18", "03", "ILO"), Province("18", "01", "MARISCAL NIETO") >>
ProvincesMissing ==
    << Province("18", "01", "MARISCAL NIETO"), Province("04", "01", "AREQUIPA") >>
ProvincesTwoNames ==
    << Province("18", "01", "MARISCAL NIETO"), Province("18", "03", "ILO"),
       Province("18", "01", "MCAL. NIETO") >>
ProvinceTables == {ProvincesRegular, ProvincesMissing, ProvincesTwoNames}

\* variant of DropDuplicates: keep='last', the later of two equal rows stays
RECURSIVE DropDuplicatesLast(_)
DropDuplicatesLast(s) ==
    IF s = <<>> THEN <<>>
    ELSE IF Head(s) \in Range(Tail(s)) THEN DropDuplicatesLast(Tail(s))
    ELSE <<Head(s)>> \o DropDuplicatesLast(Tail(s))

\* DataFrame.drop_duplicates(): a row is dropped when an earlier row is
\* equal to it in every column (keep='first')
RECURSIVE DropDuplicates(_)
DropDuplicates(s) ==
    IF s = <<>> THEN <<>>
    ELSE LET front == SubSeq(s, 1, Len(s) - 1)
             last == s[Len(s)]
         IN  IF last \in Range(front) THEN DropDuplicates(front)
             ELSE Append(DropDuplicates(front), last)

\* all_districts[all_districts['ubigeo'].str.startswith('18')]
RegionFilter(districts) ==
    SelectSeq(districts, LAMBDA d : d.ubigeo[1] = "18")

\* all_provs['ccdd'] + all_provs['ccpp'], then [['prov_code','nombprov']].drop_duplicates()
ProvMap(all_provs) ==
    DropDuplicates([i \in 1..Len(all_provs) |->
        [prov_code |-> <<all_provs[i].ccdd, all_provs[i].ccpp>>,
         nombprov |-> all_provs[i].nombprov]])

\* moquegua_dists['ubigeo'].str[:4]
ProvCode(d) == <<d.ubigeo[1], d.ubigeo[2]>>

\* merge(prov_map, on='prov_code', how='left'): every district once per
\* matching province row, in left order; once with NaN when none matches
MergeLeft(dists, prov_map) ==
    LET rowsOf == [d \in Range(dists) |->
            LET m == SelectSeq(prov_map, LAMBDA p : p.prov_code = ProvCode(d))
            IN  IF m = <<>>
                THEN << [ubigeo |-> d.ubigeo, nombdist |-> d.nombdist,
                         geometry |-> d.geometry, nombprov |-> NaN] >>
                ELSE [i \in 1..Len(m) |->
                         [ubigeo |-> d.ubigeo, nombdist |-> d.nombdist,
                          geometry |-> d.geometry, nombprov |-> m[i].nombprov]]]
    IN  FlatMap(rowsOf, dists)

\* get_alerts.py:53-70
LoadRegistry(all_districts, all_provs) ==
    LET merged == MergeLeft(RegionFilter(all_districts), ProvMap(all_provs))
    IN  [i \in 1..Len(merged) |->
            [merged[i] EXCEPT !.geometry = MakeValid(merged[i].geometry)]]

\* ------------------------------------------------ geometry request key
\* a text is a sequence of characters
AsciiDigits == {"0", "1", "2", "3", "4", "5", "6", "7", "8", "9"}
IsDigit(c) == c \in AsciiDigits

\* re.sub(r'[^0-9]', '', nro_text)
Digits(text) == SelectSeq(text, IsDigit)

FallbackYear == <<"2", "0", "2", "5">>

\* variant of Year: the leading characters are taken without looking at them
YearUnchecked(emision) ==
    IF Len(emision) >= 4 THEN SubSeq(emision, 1, 4) ELSE FallbackYear

\* re.match(r'^(\d{4})', emision): group 1, or '2025' without a match
Year(emision) ==
    IF Len(emision) >= 4 /\ \A i \in 1..4 : IsDigit(emision[i])
    THEN SubSeq(emision, 1, 4)
    ELSE FallbackYear

\* geoidep_python.py:94-104  what the WFS URL is built from
RequestKey(nro_text, emision) ==
    [nro_text |-> nro_text, emision |-> emision,
     nro |-> Digits(nro_text), year |-> Year(emision)]

\* ------------------------------------------------------- geometry fetcher
Feature(nivel, geom) == [nivel |-> nivel, geometry |-> geom]
Gdf(has_nivel, feats) == [kind |-> "gdf", has_nivel |-> has_nivel, feats |-> feats]
\* senamhi_get_spatial_alerts returns None on every failure of the request,
\* of the ZIP check, of the extraction and of the shapefile read
FetchNone == [kind |-> "none", has_nivel |-> FALSE, feats |-> <<>>]

Everywhere == Rect(0, 0, 5, 3)
GeomResults ==
    { FetchNone,
      Gdf(TRUE, <<>>),
      Gdf(TRUE, << Feature("Nivel 1", Everywhere) >>),
      \* MOQUEGUA (ring in the wrong orientation) and ILO, not TORATA
      Gdf(TRUE, << Feature("Nivel 1", Everywhere), Feature("Nivel 2", Rect(1, 1, 0, 0)),
                   Feature("Nivel 3", Rect(4, 0, 5, 1)) >>),
      \* MOQUEGUA twice; the second feature meets MOQUEGUA and TORATA in a corner
      Gdf(TRUE, << Feature("Nivel 2", Rect(0, 0, 1, 1)), Feature("Nivel 3", Rect(1, 1, 2, 2)) >>),
      \* a tag that differs from the background tag in case only
      Gdf(TRUE, << Feature("nivel 1", Rect(2, 0, 3, 1)) >>),
      \* outside the region
      Gdf(TRUE, << Feature("Nivel 2", Rect(7, 7, 8, 8)) >>),
      \* a shapefile without a 'nivel' column
      Gdf(FALSE, << Feature("", Rect(4, 0, 5, 1)) >>),
      Gdf(TRUE, << Feature("Nivel 2", Corrupt) >>) }

\* variant of NivelFilter: the tag is compared without regard to case
NivelFilterAnyCase(feats) ==
    SelectSeq(feats, LAMBDA f : f.nivel \notin {"Nivel 1", "nivel 1", "NIVEL 1"})

\* alert_geom[alert_geom['nivel'] != 'Nivel 1']
NivelFilter(feats) ==
    SelectSeq(feats, LAMBDA f : f.nivel # "Nivel 1")

\* variant of SJoin: how='left', a district that meets no feature stays as a row
SJoinLeft(dists, feats) ==
    LET hits == [d \in Range(dists) |->
            LET m == SelectSeq(feats, LAMBDA f : Intersects(d.geometry, f.geometry))
            IN  IF m = <<>> THEN <<d>> ELSE [i \in 1..Len(m) |-> d]]
    IN  FlatMap(hits, dists)

\* gpd.sjoin(moquegua_dists, alert_geom, how='inner', predicate='intersects'):
\* one row per (district row, feature) pair that intersects, by district row
SJoin(dists, feats) ==
    LET hits == [d \in Range(dists) |->
            LET m == SelectSeq(feats, LAMBDA f : Intersects(d.geometry, f.geometry))
            IN  [i \in 1..Len(m) |-> d]]
    IN  FlatMap(hits, dists)

\* variant of Record: the start and the end of the alert change places
RecordSwapped(alert, dist) ==
    [Aviso |-> alert.aviso, Nro |-> alert.nro, Nivel |-> alert.nivel,
     Inicio |-> alert.fin, Fin |-> alert.inicio, Departamento |-> "MOQUEGUA",
     Provincia |-> dist.nombprov, Distrito |-> dist.nombdist]

\* get_alerts.py:117-126
Record(alert, dist) ==
    [Aviso |-> alert.aviso, Nro |-> alert.nro, Nivel |-> alert.nivel,
     Inicio |-> alert.inicio, Fin |-> alert.fin, Departamento |-> "MOQUEGUA",
     Provincia |-> dist.nombprov, Distrito |-> dist.nombdist]

\* The body of the for loop of get_alerts.py:79-131 for one alert and one
\* answer of the fetcher: what is passed to sjoin and the rows appended.
LoopBody(alert, dists, g) ==
    IF g.kind = "none" \/ Len(g.feats) = 0
    THEN [how |-> "no_geometry", kept |-> <<>>, rows |-> <<>>]
    ELSE IF MakeValidRaises(g.feats)
    THEN [how |-> "except", kept |-> <<>>, rows |-> <<>>]
    ELSE LET valid == [i \in 1..Len(g.feats) |->
                 [g.feats[i] EXCEPT !.geometry = MakeValid(g.feats[i].geometry)]]
             kept == IF g.has_nivel THEN NivelFilter(valid) ELSE valid
             inter == SJoin(dists, kept)
         IN  IF Len(kept) = 0
             THEN [how |-> "only_nivel_1", kept |-> <<>>, rows |-> <<>>]
             ELSE IF Len(inter) = 0
             THEN [how |-> "no_intersection", kept |-> kept, rows |-> <<>>]
             ELSE [how |-> "rows", kept |-> kept,
                   rows |-> [i \in 1..Len(inter) |-> Record(alert, inter[i])]]

\* ------------------------------------------------ get_moquegua_alerts
NoFile == [exists |-> FALSE, lines |-> <<>>]
NoPage == [kind |-> "none", rows |-> <<>>]
NoRequest == [nro_text |-> <<>>, emision |-> <<>>, nro |-> <<>>, year |-> <<>>]
NoSched == [pc |-> "none", last |-> "none"]
NoCall == [n |-> 0, op |-> "none", data |-> <<>>, ret |-> 0, kind |-> "none"]

InitCommon ==
    /\ today \in Todays
    /\ alerts_table = <<>>
    /\ page = NoPage
    /\ table_columns = {}
    /\ active_alerts = <<>>
    /\ moquegua_dists = <<>>
    /\ idx = 1
    /\ detailed_warnings = <<>>
    /\ warnings_df = <<>>
    /\ fetch_log = <<>>
    /\ csv_file = NoFile
    /\ csv_todo = <<>>
    /\ prev_table = NoFile
    /\ reader_seen = NoFile
    /\ runs = 0
    /\ request = NoRequest
    /\ alerts_history = {}
    /\ affected_districts = <<>>
    /\ db_seq = 0
    /\ save_todo = <<>>
    /\ last_call = NoCall

\* -------------------------------------------------------- bulletin page
\* a <tr> of the page: the number of its <td> cells and, when there are
\* enough of them, the alert they spell
PageRow(cells, data) == [cells |-> cells, data |-> data]
MinCells == 7
ShortRow == PageRow(MinCells - 1, MkAlert("001", DateStr(0), DateStr(2)))
FullRows(t) == [i \in 1..Len(t) |-> PageRow(MinCells, t[i])]

\* the outcomes of the page request: no answer, an HTTP error status, a
\* page without <table>, a table without usable rows, a table with rows
\* (among them one that mixes a short row with a full one)
FailedPages ==
    { [kind |-> "unreachable", rows |-> <<>>],
      [kind |-> "http_error", rows |-> <<>>],
      [kind |-> "no_table", rows |-> <<>>],
      [kind |-> "table", rows |-> <<ShortRow>>] }
PagesOf(tables) ==
    FailedPages
      \cup {[kind |-> "table", rows |-> FullRows(t)] : t \in tables}
      \cup {[kind |-> "table",
             rows |-> <<ShortRow, PageRow(MinCells, MkAlert("002", DateStr(0), DateStr(0)))>>]}

ExpectedColumns == {"aviso", "nro", "emision", "inicio", "fin", "duracion", "nivel"}
EmptyTable == [columns |-> ExpectedColumns, rows |-> <<>>]

\* variant of MeteorologicalTable: a failure returns a table without columns
MeteorologicalTableBare(p) ==
    IF p.kind \in {"unreachable", "http_error", "no_table"}
    THEN [columns |-> {}, rows |-> <<>>]
    ELSE LET rows == SelectSeq(p.rows, LAMBDA r : r.cells >= MinCells)
         IN  IF rows = <<>>
             THEN [columns |-> {}, rows |-> <<>>]
             ELSE [columns |-> ExpectedColumns,
                   rows |-> [i \in 1..Len(rows) |-> rows[i].data]]

\* geoidep_python.py:32-81 senamhi_get_meteorological_table: the request or
\* raise_for_status raises and the except branch answers; no <table>; the
\* rows with at least 7 cells; none of them
MeteorologicalTable(p) ==
    IF p.kind \in {"unreachable", "http_error"}
    THEN EmptyTable
    ELSE IF p.kind = "no_table"
    THEN EmptyTable
    ELSE LET rows == SelectSeq(p.rows, LAMBDA r : r.cells >= MinCells)
         IN  IF rows = <<>>
             THEN EmptyTable
             ELSE [columns |-> ExpectedColumns,
                   rows |-> [i \in 1..Len(rows) |-> rows[i].data]]

\* get_alerts.py:39  senamhi_get_meteorological_table() returns the rows of
\* the bulletin page, or an empty table on any failure; it never raises
FetchTable(tables) ==
    /\ pc = "table"
    /\ \E p \in PagesOf(tables) :
          LET df == MeteorologicalTable(p)
          IN  /\ page' = p
              /\ alerts_table' = df.rows
              /\ table_columns' = df.columns
    /\ pc' = "filter"
    /\ UNCHANGED <<today, active_alerts, moquegua_dists, idx,
                   detailed_warnings, warnings_df, fetch_log, file_vars,
                   reader_seen, runs, request, sched, db_vars>>

FinColumn(table) == [i \in 1..Len(table) |-> table[i].fin]

\* alerts_table[alerts_table['fin_date'] >= today]
ActiveFilter(table, day) ==
    SelectSeq(table, LAMBDA a : GeTimestamp(ToDatetime(a.fin), day))

\* get_alerts.py:43-51
FilterActive ==
    /\ pc = "filter"
    /\ IF "fin" \notin table_columns \/ ToDatetimeRaises(FinColumn(alerts_table))
       THEN /\ pc' = "raised"
            /\ UNCHANGED <<active_alerts, warnings_df>>
       ELSE /\ active_alerts' = ActiveFilter(alerts_table, today)
            /\ IF Len(active_alerts') = 0
               THEN warnings_df' = <<>> /\ pc' = "returned"
               ELSE pc' = "districts" /\ UNCHANGED warnings_df
    /\ UNCHANGED <<today, alerts_table, page, table_columns, moquegua_dists,
                   idx, detailed_warnings, fetch_log, file_vars, reader_seen,
                   runs, request, sched, db_vars>>

\* get_alerts.py:53-75
LoadDistricts(tables) ==
    /\ pc = "districts"
    /\ \E all_provs \in tables :
          moquegua_dists' = LoadRegistry(AllDistricts, all_provs)
    /\ detailed_warnings' = <<>>
    /\ fetch_log' = <<>>
    /\ idx' = 1
    /\ pc' = "loop"
    /\ UNCHANGED <<today, alerts_table, page, table_columns, active_alerts,
                   warnings_df, file_vars, reader_seen, runs, request, sched,
                   db_vars>>

\* variant of ProcessAlert: a fetch that returns nothing is not skipped but
\* ends the run with an exception
ProcessAlertAbort(results) ==
    /\ pc = "loop"
    /\ idx <= Len(active_alerts)
    /\ \E g \in results :
          LET alert == active_alerts[idx]
              out == LoopBody(alert, moquegua_dists, g)
          IN  /\ detailed_warnings' = detailed_warnings \o out.rows
              /\ fetch_log' = Append(fetch_log,
                                [alert |-> alert, geom |-> g, how |-> out.how,
                                 kept |-> out.kept, nrows |-> Len(out.rows)])
              /\ pc' = IF out.how = "no_geometry" THEN "raised" ELSE pc
    /\ idx' = idx + 1
    /\ UNCHANGED <<today, alerts_table, page, table_columns, active_alerts,
                   moquegua_dists, warnings_df, file_vars, reader_seen, runs,
                   request, sched, db_vars>>

\* variant of ProcessAlert: the rows of an alert are put in front of the
\* rows collected so far
ProcessAlertPrepend(results) ==
    /\ pc = "loop"
    /\ idx <= Len(active_alerts)
    /\ \E g \in results :
          LET alert == active_alerts[idx]
              out == LoopBody(alert, moquegua_dists, g)
          IN  /\ detailed_warnings' = out.rows \o detailed_warnings
              /\ fetch_log' = Append(fetch_log,
                                [alert |-> alert, geom |-> g, how |-> out.how,
                                 kept |-> out.kept, nrows |-> Len(out.rows)])
    /\ idx' = idx + 1
    /\ UNCHANGED <<pc, today, alerts_table, page, table_columns,
                   active_alerts, moquegua_dists, warnings_df, file_vars,
                   reader_seen, runs, request, sched, db_vars>>

\* variant of ProcessAlert: a fetch that gave nothing is tried once more
ProcessAlertRetry(results) ==
    /\ pc = "loop"
    /\ idx <= Len(active_alerts)
    /\ \E g1 \in results, g2 \in results :
          LET alert == active_alerts[idx]
              first == LoopBody(alert, moquegua_dists, g1)
              again == first.how = "no_geometry"
              g == IF again THEN g2 ELSE g1
              out == LoopBody(alert, moquegua_dists, g)
              tried == IF again
                       THEN Append(fetch_log,
                                [alert |-> alert, geom |-> g1, how |-> first.how,
                                 kept |-> first.kept, nrows |-> 0])
                       ELSE fetch_log
          IN  /\ detailed_warnings' = detailed_warnings \o out.rows
              /\ fetch_log' = Append(tried,
                                [alert |-> alert, geom |-> g, how |-> out.how,
                                 kept |-> out.kept, nrows |-> Len(out.rows)])
    /\ idx' = idx + 1
    /\ UNCHANGED <<pc, today, alerts_table, page, table_columns,
                   active_alerts, moquegua_dists, warnings_df, file_vars,
                   reader_seen, runs, request, sched, db_vars>>

\* variant of ProcessAlert: the registry is overwritten by the districts the
\* alert intersects
ProcessAlertNarrow(results) ==
    /\ pc = "loop"
    /\ idx <= Len(active_alerts)
    /\ \E g \in results :
          LET alert == active_alerts[idx]
              out == LoopBody(alert, moquegua_dists, g)
          IN  /\ detailed_warnings' = detailed_warnings \o out.rows
              /\ fetch_log' = Append(fetch_log,
                                [alert |-> alert, geom |-> g, how |-> out.how,
                                 kept |-> out.kept, nrows |-> Len(out.rows)])
              /\ moquegua_dists' =
                    IF out.how = "rows"
                    THEN SelectSeq(moquegua_dists, LAMBDA d :
                            \E k \in Range(out.kept) : Intersects(d.geometry, k.geometry))
                    ELSE moquegua_dists
    /\ idx' = idx + 1
    /\ UNCHANGED <<pc, today, alerts_table, page, table_columns,
                   active_alerts, warnings_df, file_vars, reader_seen, runs,
                   request, sched, db_vars>>

\* get_alerts.py:79-131  one iteration of the loop; every path of the body
\* ends in the next iteration (continue, or the except clause)
ProcessAlert(results) ==
    /\ pc = "loop"
    /\ idx <= Len(active_alerts)
    /\ \E g \in results :
          LET alert == active_alerts[idx]
              out == LoopBody(alert, moquegua_dists, g)
          IN  /\ detailed_warnings' = detailed_warnings \o out.rows
              /\ fetch_log' = Append(fetch_log,
                                [alert |-> alert, geom |-> g, how |-> out.how,
                                 kept |-> out.kept, nrows |-> Len(out.rows)])
    /\ idx' = idx + 1
    /\ UNCHANGED <<pc, today, alerts_table, page, table_columns,
                   active_alerts, moquegua_dists, warnings_df, file_vars,
                   reader_seen, runs, request, sched, db_vars>>

\* get_alerts.py:133-143
Assemble ==
    /\ pc = "loop"
    /\ idx > Len(active_alerts)
    /\ warnings_df' = IF detailed_warnings = <<>> THEN <<>>
                      ELSE DropDuplicates(detailed_warnings)
    /\ pc' = "returned"
    /\ UNCHANGED <<today, alerts_table, page, table_columns, active_alerts,
                   moquegua_dists, idx, detailed_warnings, fetch_log,
                   file_vars, reader_seen, runs, request, sched, db_vars>>

\* One call of get_moquegua_alerts.
InitMatch == InitCommon /\ pc = "table" /\ sched = NoSched

NextMatch ==
    \/ FetchTable(SeqsUpTo(AlertPool, MaxAlerts))
    \/ FilterActive
    \/ LoadDistricts(ProvinceTables)
    \/ ProcessAlert(GeomResults)
    \/ Assemble

SpecMatch == InitMatch /\ [][NextMatch]_vars

\* =====================================================================
\* Properties of get_moquegua_alerts (checked under SpecMatch)
\* =====================================================================
FilterDone == pc \in {"districts", "loop", "returned"}
LoopDone == pc = "returned" /\ Len(active_alerts) > 0

\* the end date of an alert as a calendar day, when it has one
HasEndDay(a) == a.fin.k = "date"
ActiveOn(a, day) == HasEndDay(a) /\ a.fin.d >= day

\* C1: once the active-alert filter has run, the alerts passed on to spatial
\* matching are exactly the alerts of the raw table whose end date is >= today
\* (an alert ending today is kept, one ending before today is dropped), in
\* source order and with their multiplicity.
C1_ActiveFilter ==
    FilterDone =>
        /\ \A a \in Range(alerts_table) :
              (a \in Range(active_alerts)) <=> ActiveOn(a, today)
        /\ Len(active_alerts) =
              Cardinality({i \in 1..Len(alerts_table) : ActiveOn(alerts_table[i], today)})
        /\ \A i, j \in 1..Len(active_alerts) :
              i < j => \E k, l \in 1..Len(alerts_table) :
                          /\ k < l
                          /\ alerts_table[k] = active_alerts[i]
                          /\ alerts_table[l] = active_alerts[j]
        /\ pc = "returned" =>
              [i \in 1..Len(fetch_log) |-> fetch_log[i].alert] = active_alerts

\* a run in which an alert ending today was kept and an alert that ended
\* yesterday was dropped, and the kept one has been matched
C1_Witness ==
    /\ pc = "returned"
    /\ \E a \in Range(active_alerts) : a.fin = DateStr(today)
    /\ \E a \in Range(alerts_table) :
          HasEndDay(a) /\ a.fin.d < today /\ a \notin Range(active_alerts)
    /\ Len(fetch_log) = Len(active_alerts)

\* the loop of get_moquegua_alerts run on a list of (alert, fetcher answer)
\* pairs, followed by the assembly of the table
RowsOfRun(entries, dists) ==
    FlatMap([e \in Range(entries) |-> LoopBody(e.alert, dists, e.geom).rows], entries)
TableOfRun(entries, dists) ==
    LET rows == RowsOfRun(entries, dists)
    IN  IF rows = <<>> THEN <<>> ELSE DropDuplicates(rows)

FetchFailed(e) == e.geom.kind = "none" \/ Len(e.geom.feats) = 0

\* C2: a geometry fetch that fails (None, or an empty result) is local: the
\* loop goes on with the next alert, no exception escapes, and the returned
\* table is the table of the run on the list without the failing alerts.
C2_FetchFailureLocal ==
    /\ (\E i \in 1..Len(fetch_log) : FetchFailed(fetch_log[i])) =>
          pc \in {"loop", "returned"}
    /\ LoopDone =>
          /\ Len(fetch_log) = Len(active_alerts)
          /\ warnings_df =
                TableOfRun(SelectSeq(fetch_log, LAMBDA e : ~FetchFailed(e)),
                           moquegua_dists)

\* the first alert's fetch failed, a later alert produced rows, the run returned
C2_Witness ==
    /\ LoopDone
    /\ Len(fetch_log) >= 2
    /\ FetchFailed(fetch_log[1])
    /\ fetch_log[1].geom.kind = "none"
    /\ fetch_log[2].nrows > 0
    /\ Len(warnings_df) > 0

\* two closed rectangles share a point of the grid
SharePoint(g, h) ==
    \E x \in g.x1..g.x2, y \in g.y1..g.y2 :
        /\ h.x1 <= x /\ x <= h.x2
        /\ h.y1 <= y /\ y <= h.y2

Repaired(g) ==
    [g EXCEPT !.x1 = IF g.x1 <= g.x2 THEN g.x1 ELSE g.x2,
              !.x2 = IF g.x1 <= g.x2 THEN g.x2 ELSE g.x1,
              !.y1 = IF g.y1 <= g.y2 THEN g.y1 ELSE g.y2,
              !.y2 = IF g.y1 <= g.y2 THEN g.y2 ELSE g.y1]

\* the fetcher returned features and all of them could be repaired
FetchSucceeded(e) ==
    /\ e.geom.kind = "gdf"
    /\ Len(e.geom.feats) > 0
    /\ \A f \in Range(e.geom.feats) : f.geometry.kind = "poly"

Background(e, f) == e.geom.has_nivel /\ f.nivel = "Nivel 1"

RegionDistricts == {d \in Range(AllDistricts) : d.ubigeo[1] = "18"}

PairOfRow(r) == <<r.Aviso, r.Nro, r.Nivel, r.Inicio, r.Fin, r.Distrito>>
PairOf(a, d) == <<a.aviso, a.nro, a.nivel, a.inicio, a.fin, d.nombdist>>

\* C3: the returned table has a row for (alert, district) exactly when the
\* alert is active, its geometry fetch succeeded and the district's polygon
\* shares a point with at least one of its non-background features; there is
\* no row for any other district (none for a district outside the region, no
\* marker row) and none for an alert that meets no district.
C3_MatchingExact ==
    LoopDone =>
        {PairOfRow(warnings_df[i]) : i \in 1..Len(warnings_df)} =
        {PairOf(fetch_log[i].alert, d) : <<i, d>> \in
            {<<i, d>> \in (1..Len(fetch_log)) \X RegionDistricts :
                /\ ActiveOn(fetch_log[i].alert, today)
                /\ FetchSucceeded(fetch_log[i])
                /\ \E f \in Range(fetch_log[i].geom.feats) :
                      /\ ~Background(fetch_log[i], f)
                      /\ SharePoint(d.geometry, Repaired(f.geometry))}}

\* geometry meeting MOQUEGUA and ILO but not TORATA gives exactly two rows
C3_Witness ==
    /\ LoopDone
    /\ Len(fetch_log) = 1
    /\ {r.Distrito : r \in Range(warnings_df)} = {"MOQUEGUA", "ILO"}
    /\ Len(warnings_df) = 2

\* the entries of the log whose shapefile carried a 'nivel' column and whose
\* features all went through make_valid
Tagged(e) == FetchSucceeded(e) /\ e.geom.has_nivel

\* C4: of the features returned for an alert, exactly those tagged 'Nivel 1'
\* (case-sensitive) are removed before the intersection step and all others
\* are passed on; an alert with only background features appends no row, and
\* the loop goes on to the next alert without an exception.
C4_BackgroundExclusion ==
    /\ (fetch_log # <<>>) => pc \in {"loop", "returned"}
    /\ \A i \in 1..Len(fetch_log) :
          LET e == fetch_log[i]
              feats == e.geom.feats
              others == {j \in 1..Len(feats) : feats[j].nivel # "Nivel 1"}
          IN  Tagged(e) =>
                /\ \A k \in Range(e.kept) : k.nivel # "Nivel 1"
                /\ Len(e.kept) = Cardinality(others)
                /\ \A j \in others : \E k \in Range(e.kept) :
                      /\ k.nivel = feats[j].nivel
                      /\ k.geometry = Repaired(feats[j].geometry)
                /\ (others = {}) => e.nrows = 0 /\ e.how = "only_nivel_1"
                /\ (e.nrows > 0) =>
                      \E k \in Range(e.kept), d \in RegionDistricts :
                          SharePoint(d.geometry, k.geometry)

\* an alert with only background geometry added nothing and the next alert
\* was processed; an alert tagged 'nivel 1' (lower case) produced a row
C4_Witness ==
    /\ LoopDone
    /\ Len(fetch_log) >= 2
    /\ fetch_log[1].how = "only_nivel_1"
    /\ fetch_log[1].nrows = 0
    /\ fetch_log[2].nrows > 0
    /\ \E k \in Range(fetch_log[2].kept) : k.nivel = "nivel 1"

AlertOfRow(r) == <<r.Aviso, r.Nro, r.Nivel, r.Inicio, r.Fin>>

\* C5: the returned table holds at most one row per (alert, district) pair.
C5_OneRowPerPair ==
    pc = "returned" =>
        \A i, j \in 1..Len(warnings_df) :
            (/\ AlertOfRow(warnings_df[i]) = AlertOfRow(warnings_df[j])
             /\ warnings_df[i].Distrito = warnings_df[j].Distrito) => i = j

\* the index of the first occurrence of a row in a table
FirstAt(s, r) == CHOOSE i \in 1..Len(s) : s[i] = r /\ \A j \in 1..(i - 1) : s[j] # r

\* C6: the deduplication step removes exactly the rows equal in every field
\* to an earlier row (the first occurrences stay, in their order), and
\* applying it to its own output removes nothing.
C6_DedupIdempotent ==
    (LoopDone /\ detailed_warnings # <<>>) =>
        /\ \A i, j \in 1..Len(warnings_df) :
              warnings_df[i] = warnings_df[j] => i = j
        /\ Range(warnings_df) = Range(detailed_warnings)
        /\ Len(warnings_df) =
              Cardinality({i \in 1..Len(detailed_warnings) :
                  \A j \in 1..(i - 1) : detailed_warnings[j] # detailed_warnings[i]})
        /\ \A i, j \in 1..Len(warnings_df) :
              i < j => FirstAt(detailed_warnings, warnings_df[i])
                         < FirstAt(detailed_warnings, warnings_df[j])
        /\ DropDuplicates(warnings_df) = warnings_df

\* a table in which a repeated row is separated from its first occurrence
\* by a different row, and the returned table is shorter
C6_Witness ==
    /\ LoopDone
    /\ Len(warnings_df) < Len(detailed_warnings)
    /\ \E i, j, k \in 1..Len(detailed_warnings) :
          /\ i < j /\ j < k
          /\ detailed_warnings[i] = detailed_warnings[k]
          /\ detailed_warnings[i] # detailed_warnings[j]

\* C7: a record whose end date cannot be parsed is left out of the active
\* set and the run goes on: no exception leaves get_moquegua_alerts and the
\* other alerts are filtered as usual.
C7_UnparsableExcluded ==
    (/\ pc \notin {"table", "filter"}
     /\ \E a \in Range(alerts_table) : a.fin.k = "garbage") =>
        /\ pc # "raised"
        /\ \A a \in Range(alerts_table) :
              (a \in Range(active_alerts)) <=> ActiveOn(a, today)

\* the page request failed or gave nothing to parse
PageFailed ==
    \/ page.kind \in {"unreachable", "http_error", "no_table"}
    \/ /\ page.kind = "table"
       /\ \A i \in 1..Len(page.rows) : page.rows[i].cells < MinCells

\* C14: whenever the page request fails or yields no table or no data row,
\* senamhi_get_meteorological_table returns an empty table with the seven
\* expected columns and raises nothing; the run on it returns an empty
\* result without loading districts or fetching a geometry.
C14_BulletinNeverThrows ==
    (pc # "table" /\ PageFailed) =>
        /\ alerts_table = <<>>
        /\ table_columns = ExpectedColumns
        /\ pc \in {"filter", "returned"}
        /\ pc = "returned" =>
              /\ active_alerts = <<>>
              /\ warnings_df = <<>>
              /\ moquegua_dists = <<>>
              /\ fetch_log = <<>>

\* the site was unreachable and the run returned
C14_Witness ==
    /\ pc = "returned"
    /\ page.kind = "unreachable"
    /\ table_columns = ExpectedColumns
    /\ warnings_df = <<>>

\* a rectangle whose corners are in order; the fetcher returned a feature
\* that make_valid cannot repair
ValidGeom(g) == g.kind = "poly" /\ g.x1 <= g.x2 /\ g.y1 <= g.y2
Unrepairable(e) ==
    /\ e.geom.kind = "gdf"
    /\ \E f \in Range(e.geom.feats) : f.geometry.kind = "corrupt"

\* C15: every feature handed to the intersection test is the repaired form
\* of a fetched feature; an alert with a feature that cannot be repaired
\* adds no row, the loop goes on without an exception leaving the run, and
\* the returned table is the table of the run without that alert.
C15_RepairBeforeJoin ==
    /\ \A i \in 1..Len(fetch_log) :
          LET e == fetch_log[i]
          IN  /\ \A k \in Range(e.kept) :
                    /\ ValidGeom(k.geometry)
                    /\ \E f \in Range(e.geom.feats) :
                          k.nivel = f.nivel /\ k.geometry = Repaired(f.geometry)
              /\ Unrepairable(e) => (e.nrows = 0 /\ e.kept = <<>>)
    /\ (\E i \in 1..Len(fetch_log) : Unrepairable(fetch_log[i])) =>
          pc \in {"loop", "returned"}
    /\ LoopDone =>
          warnings_df =
             TableOfRun(SelectSeq(fetch_log, LAMBDA e : ~Unrepairable(e)),
                        moquegua_dists)

\* the first alert's geometry could not be repaired; the second alert's
\* features, one of them repaired, gave rows, and the run returned them
C15_Witness ==
    /\ LoopDone
    /\ Len(fetch_log) >= 2
    /\ Unrepairable(fetch_log[1])
    /\ fetch_log[2].nrows > 0
    /\ \E f \in Range(fetch_log[2].geom.feats) :
          f.geometry.kind = "poly" /\ ~ValidGeom(f.geometry)
    /\ Len(warnings_df) > 0

\* the alert fields of a source alert, as a row carries them
FieldsOf(a) == <<a.aviso, a.nro, a.nivel, a.inicio, a.fin>>

\* the number of rows the first n processed alerts appended
RECURSIVE RowsBefore(_, _)
RowsBefore(log, n) ==
    IF n = 0 THEN 0 ELSE RowsBefore(log, n - 1) + log[n].nrows

\* the position in the source list of the alert whose iteration appended
\* the first occurrence of row r
AlertAt(r) ==
    CHOOSE k \in 1..Len(fetch_log) :
        LET p == FirstAt(detailed_warnings, r)
        IN  RowsBefore(fetch_log, k - 1) < p /\ p <= RowsBefore(fetch_log, k)

\* C16: rows are appended alert by alert in the order of the source list,
\* so in the returned table every row of an earlier alert precedes every
\* row of a later one; the rows that survive deduplication are the first
\* occurrences in their order of insertion; and the returned sequence is
\* determined by the alerts, the fetched geometries and the registry.
C16_AlertStableOrder ==
    /\ pc \in {"loop", "returned"} =>
          /\ Len(detailed_warnings) = RowsBefore(fetch_log, Len(fetch_log))
          /\ \A i \in 1..Len(fetch_log) :
                \A p \in (RowsBefore(fetch_log, i - 1) + 1)..RowsBefore(fetch_log, i) :
                    AlertOfRow(detailed_warnings[p]) = FieldsOf(active_alerts[i])
    /\ LoopDone =>
          /\ \A i, j \in 1..Len(warnings_df) :
                i < j => /\ AlertAt(warnings_df[i]) <= AlertAt(warnings_df[j])
                         /\ AlertOfRow(warnings_df[i]) =
                              FieldsOf(active_alerts[AlertAt(warnings_df[i])])
                         /\ AlertOfRow(warnings_df[j]) =
                              FieldsOf(active_alerts[AlertAt(warnings_df[j])])
                         /\ FirstAt(detailed_warnings, warnings_df[i])
                              < FirstAt(detailed_warnings, warnings_df[j])
          /\ warnings_df = TableOfRun(fetch_log, moquegua_dists)

\* two different alerts gave rows, the first of them more than one, and the
\* second repeated nothing of the first: the table holds both groups
C16_Witness ==
    /\ LoopDone
    /\ Len(fetch_log) >= 2
    /\ fetch_log[1].nrows >= 2
    /\ fetch_log[2].nrows >= 1
    /\ fetch_log[1].alert # fetch_log[2].alert
    /\ Len(warnings_df) = fetch_log[1].nrows + fetch_log[2].nrows
    /\ AlertAt(warnings_df[1]) = 1
    /\ AlertAt(warnings_df[Len(warnings_df)]) = 2

\* how many times the fetcher was invoked for alert a / how many rows of
\* the bulletin table are the active alert a
FetchesFor(a) == Cardinality({i \in 1..Len(fetch_log) : fetch_log[i].alert = a})
ActiveRowsOf(a) ==
    Cardinality({i \in 1..Len(alerts_table) :
                    alerts_table[i] = a /\ ActiveOn(a, today)})

\* C17: the fetcher is invoked once per loop iteration, for the alert of
\* that iteration: i invocations after i iterations, whatever they
\* returned; at the end of the loop one invocation for every active row of
\* the bulletin table and none for an alert that is not active.
C17_NoRetry ==
    /\ Len(fetch_log) = idx - 1
    /\ Len(fetch_log) <= Len(active_alerts)
    /\ \A i \in 1..Len(fetch_log) :
          /\ fetch_log[i].alert = active_alerts[i]
          /\ ActiveOn(fetch_log[i].alert, today)
    /\ LoopDone =>
          /\ Len(fetch_log) = Len(active_alerts)
          /\ \A a \in Range(alerts_table) : FetchesFor(a) = ActiveRowsOf(a)

\* of two alerts in the bulletin one was inactive and never fetched; the
\* fetch for the other failed and the run returned after that one fetch
C17_Witness ==
    /\ LoopDone
    /\ Len(alerts_table) = 2
    /\ \E a \in Range(alerts_table) : ~ActiveOn(a, today) /\ FetchesFor(a) = 0
    /\ Len(fetch_log) = 1
    /\ fetch_log[1].geom.kind = "none"

\* the registry is loaded: the loop runs or has run
RegistryLoaded == pc = "loop" \/ LoopDone

\* the province names the province table gives for a district's code
ProvinceNamesOf(d) ==
    {p.nombprov : p \in {q \in Range(ProvincesRegular) \cup Range(ProvincesMissing)
                                \cup Range(ProvincesTwoNames) :
                            <<q.ccdd, q.ccpp>> = <<d.ubigeo[1], d.ubigeo[2]>>}}

\* C18: the loaded registry holds exactly the districts whose identifier
\* starts with '18', each of them in exactly one row, whose province is the
\* name of a province with the district's first four identifier characters
\* as code, or the missing value when the province table has no such code.
C18_RegistryLoad ==
    RegistryLoaded =>
        /\ {d.ubigeo : d \in Range(moquegua_dists)} =
              {d.ubigeo : d \in RegionDistricts}
        /\ \A i, j \in 1..Len(moquegua_dists) :
              moquegua_dists[i].ubigeo = moquegua_dists[j].ubigeo => i = j
        /\ \A d \in Range(moquegua_dists) :
              d.nombprov \in ProvinceNamesOf(d) \cup {NaN}

\* C19: within a run the registry is assigned once, while it is still
\* empty and before the first alert is processed; no iteration of the
\* loop, whatever its outcome, and no later step changes its rows (district,
\* name, province, polygon), so the rows of every processed alert are those
\* of matching it against the registry as loaded.
C19_RegistryReadOnly ==
    [][ /\ (moquegua_dists' # moquegua_dists) =>
              (pc = "districts" /\ moquegua_dists = <<>> /\ fetch_log = <<>>)
        /\ (pc = "loop") => moquegua_dists' = moquegua_dists
        /\ (Len(fetch_log') > Len(fetch_log)) =>
              LET e == fetch_log'[Len(fetch_log')]
              IN  detailed_warnings' =
                     detailed_warnings \o LoopBody(e.alert, moquegua_dists', e.geom).rows
      ]_vars

\* the loop processed an alert that gave rows for some of the districts and
\* then one that was skipped or failed in the repair, and the registry
\* still holds its three districts as loaded
C19_Witness ==
    /\ LoopDone
    /\ Len(fetch_log) = 2
    /\ fetch_log[1].how = "rows"
    /\ fetch_log[1].nrows < Len(moquegua_dists)
    /\ fetch_log[2].how \in {"except", "no_geometry"}
    /\ moquegua_dists = LoadRegistry(AllDistricts, ProvincesRegular)
    /\ Len(moquegua_dists) = Cardinality(RegionDistricts)

\* row r carries the fields of alert a and of registry row d
RowFrom(r, a, d) ==
    /\ DOMAIN r = {"Aviso", "Nro", "Nivel", "Inicio", "Fin", "Departamento",
                   "Provincia", "Distrito"}
    /\ r.Aviso = a.aviso /\ r.Nro = a.nro /\ r.Nivel = a.nivel
    /\ r.Inicio = a.inicio /\ r.Fin = a.fin
    /\ r.Provincia = d.nombprov /\ r.Distrito = d.nombdist
    /\ r.Departamento = "MOQUEGUA"

\* C20: every row collected and every row returned has the Aviso, Nro,
\* Nivel, Inicio and Fin of one active source alert, the province and the
\* district name of one row of the registry, and Departamento 'MOQUEGUA'.
C20_RowFields ==
    pc \in {"loop", "returned"} =>
        \A r \in Range(detailed_warnings) \cup Range(warnings_df) :
            \E a \in Range(active_alerts), d \in Range(moquegua_dists) :
                RowFrom(r, a, d)

\* the returned table has rows of two alerts that differ in number and end
\* date, for districts of two provinces
C20_Witness ==
    /\ LoopDone
    /\ \E r, q \in Range(warnings_df) :
          /\ r.Nro # q.Nro /\ r.Fin # q.Fin
          /\ r.Inicio # r.Fin
          /\ r.Provincia = "ILO" /\ r.Distrito = "ILO"
          /\ q.Provincia = "MARISCAL NIETO" /\ q.Distrito = "MOQUEGUA"

\* ---------------------------------------------------------------------
\* The intersection test of get_alerts.py:101-107 on its own: one active
\* alert, the registry loaded, and as the alert's geometry any one
\* rectangle of the grid the districts lie in.
\* ---------------------------------------------------------------------
TouchRects ==
    { Rect(x1, y1, x2, y2) :
        x1 \in Everywhere.x1..Everywhere.x2, x2 \in Everywhere.x1..Everywhere.x2,
        y1 \in Everywhere.y1..Everywhere.y2, y2 \in Everywhere.y1..Everywhere.y2 }
TouchResults ==
    { Gdf(TRUE, <<Feature("Nivel 2", r)>>) :
        r \in {q \in TouchRects : q.x1 < q.x2 /\ q.y1 < q.y2} }

\* the state of get_moquegua_alerts when the loop of line 79 is entered
InitTouch ==
    /\ pc = "loop"
    /\ today \in Todays
    /\ alerts_table = <<MkAlert("001", DateStr(0), DateStr(2))>>
    /\ page = [kind |-> "table", rows |-> FullRows(alerts_table)]
    /\ table_columns = ExpectedColumns
    /\ active_alerts = alerts_table
    /\ moquegua_dists = LoadRegistry(AllDistricts, ProvincesRegular)
    /\ idx = 1
    /\ detailed_warnings = <<>>
    /\ warnings_df = <<>>
    /\ fetch_log = <<>>
    /\ csv_file = NoFile
    /\ csv_todo = <<>>
    /\ prev_table = NoFile
    /\ reader_seen = NoFile
    /\ runs = 0
    /\ request = NoRequest
    /\ sched = NoSched
    /\ alerts_history = {}
    /\ affected_districts = <<>>
    /\ db_seq = 0
    /\ save_todo = <<>>
    /\ last_call = NoCall

NextTouch ==
    \/ ProcessAlert(TouchResults)
    \/ Assemble

SpecTouch == InitTouch /\ [][NextTouch]_vars

\* the rectangles meet, but only on their boundaries: in one corner point
\* or along a piece of an edge
BoundaryOnly(g, h) ==
    /\ SharePoint(g, h)
    /\ ~(/\ Max(g.x1, h.x1) < Min(g.x2, h.x2)
         /\ Max(g.y1, h.y1) < Min(g.y2, h.y2))
CornerOnly(g, h) ==
    /\ Max(g.x1, h.x1) = Min(g.x2, h.x2)
    /\ Max(g.y1, h.y1) = Min(g.y2, h.y2)

\* C21: a district whose polygon meets a feature of the alert only in a
\* corner point or only along a boundary segment is reported: the alert
\* has a row for it, in the rows collected and in the returned table.
C21_PermissiveIntersects ==
    \A i \in 1..Len(fetch_log) :
        \A f \in Range(fetch_log[i].kept), d \in Range(moquegua_dists) :
            BoundaryOnly(d.geometry, f.geometry) =>
                /\ \E r \in Range(detailed_warnings) :
                      /\ r.Distrito = d.nombdist
                      /\ r.Nro = fetch_log[i].alert.nro
                /\ pc = "returned" =>
                      \E r \in Range(warnings_df) :
                          /\ r.Distrito = d.nombdist
                          /\ r.Nro = fetch_log[i].alert.nro

\* the feature lies between the districts: it meets MOQUEGUA and ILO in
\* one corner each and TORATA along an edge, and all three are returned
C21_Witness ==
    /\ pc = "returned"
    /\ Len(fetch_log) = 1
    /\ \E f \in Range(fetch_log[1].kept) :
          /\ \E d \in Range(moquegua_dists) :
                d.nombdist = "MOQUEGUA" /\ CornerOnly(d.geometry, f.geometry)
          /\ \E d \in Range(moquegua_dists) :
                /\ d.nombdist = "TORATA"
                /\ BoundaryOnly(d.geometry, f.geometry)
                /\ ~CornerOnly(d.geometry, f.geometry)
          /\ \A d \in Range(moquegua_dists) : BoundaryOnly(d.geometry, f.geometry)
    /\ {r.Distrito : r \in Range(warnings_df)} = {"MOQUEGUA", "TORATA", "ILO"}

\* ---------------------------------------------------------------------
\* The request key of senamhi_get_spatial_alerts on its own: the texts of
\* the alert number and of the issue date are any short texts over a few
\* characters (digits and others).
\* ---------------------------------------------------------------------
NroChars == {"0", "7", "N"}
EmisionChars == {"2", "0", "/"}

\* geoidep_python.py:94-104
SpatialAlertsRequest ==
    /\ pc = "key"
    /\ request = NoRequest
    /\ \E nro_text \in SeqsUpTo(NroChars, MaxNroLen),
          emision \in SeqsUpTo(EmisionChars, MaxEmisionLen) :
          request' = RequestKey(nro_text, emision)
    /\ pc' = "requested"
    /\ UNCHANGED <<matcher_vars, file_vars, reader_seen, runs, sched, db_vars>>

InitKey == InitCommon /\ pc = "key" /\ sched = NoSched
NextKey == SpatialAlertsRequest
SpecKey == InitKey /\ [][NextKey]_vars

\* the position of the k-th digit of a text
DigitAt(text, k) ==
    CHOOSE i \in 1..Len(text) :
        /\ IsDigit(text[i])
        /\ Cardinality({j \in 1..i : IsDigit(text[j])}) = k

\* C22: the geometry is requested for the digits of the alert number, in
\* their order and nothing else, and for the year made of the first four
\* characters of the issue date when all four are digits, '2025' otherwise.
C22_RequestKey ==
    pc = "requested" =>
        /\ Len(request.nro) =
              Cardinality({i \in 1..Len(request.nro_text) : IsDigit(request.nro_text[i])})
        /\ \A k \in 1..Len(request.nro) :
              request.nro[k] = request.nro_text[DigitAt(request.nro_text, k)]
        /\ IF /\ Len(request.emision) >= 4
              /\ \A i \in 1..4 : request.emision[i] \in AsciiDigits
           THEN request.year = <<request.emision[1], request.emision[2],
                                 request.emision[3], request.emision[4]>>
           ELSE request.year = <<"2", "0", "2", "5">>

\* a number with a letter before its digits and an issue date whose first
\* four characters are not all digits: digits kept, year from the fallback
C22_Witness ==
    /\ pc = "requested"
    /\ request.nro_text = <<"N", "0", "7">>
    /\ request.nro = <<"0", "7">>
    /\ request.emision = <<"2", "0", "/", "2", "0">>
    /\ request.year = FallbackYear

\* =====================================================================
\* AlertDatabase (src/src/database.py)
\* =====================================================================
AlertRow(id, data) ==
    [id |-> id, aviso |-> data.aviso, nro |-> data.nro, nivel |-> data.nivel,
     inicio |-> data.inicio, fin |-> data.fin, status |-> data.status]

\* variant of ExistingAlert: the row is looked up by alert number alone
ExistingAlertByNro(hist, data) ==
    {r \in hist : r.nro = data.nro}

\* SELECT id FROM alerts_history WHERE nro = ? AND inicio = ?
ExistingAlert(hist, data) ==
    {r \in hist : r.nro = data.nro /\ r.inicio = data.inicio}

\* add_alert: UPDATE of the row found, or INSERT with the next AUTOINCREMENT
\* id (one more than the largest id ever given, kept in sqlite_sequence)
AddAlert(hist, seq, data) ==
    LET existing == ExistingAlert(hist, data)
    IN  IF existing # {}
        THEN LET row == CHOOSE r \in existing : \A q \in existing : r.id <= q.id
             IN  [hist |-> (hist \ {row}) \cup
                              {[row EXCEPT !.aviso = data.aviso, !.nivel = data.nivel,
                                           !.fin = data.fin, !.status = data.status]},
                  seq |-> seq, ret |-> row.id, kind |-> "update"]
        ELSE [hist |-> hist \cup {AlertRow(seq + 1, data)},
              seq |-> seq + 1, ret |-> seq + 1, kind |-> "insert"]

\* sqlite3 binds a float NaN as NULL, which the NOT NULL columns of
\* affected_districts reject (IntegrityError)
InsertRaises(districts) ==
    \E i \in 1..Len(districts) :
        NaN \in {districts[i].distrito, districts[i].provincia,
                 districts[i].departamento}

\* variant of AddAffectedDistricts: the rows of alert_id are not deleted first
AddAffectedDistrictsAppend(ad, alert_id, districts) ==
    IF InsertRaises(districts)
    THEN [ad |-> ad, raised |-> TRUE]
    ELSE [ad |-> ad \o
                 [i \in 1..Len(districts) |->
                     [alert_id |-> alert_id, distrito |-> districts[i].distrito,
                      provincia |-> districts[i].provincia,
                      departamento |-> districts[i].departamento]],
          raised |-> FALSE]

\* variant of AddAffectedDistricts: every statement is committed as it is
\* executed, so the DELETE and the INSERTs before the failing one stay
AddAffectedDistrictsAutocommit(ad, alert_id, districts) ==
    LET bad == {i \in 1..Len(districts) : InsertRaises(<<districts[i]>>)}
        upto == IF bad = {} THEN Len(districts)
                ELSE (CHOOSE i \in bad : \A j \in bad : i <= j) - 1
    IN  [ad |-> SelectSeq(ad, LAMBDA r : r.alert_id # alert_id) \o
                [i \in 1..upto |->
                    [alert_id |-> alert_id, distrito |-> districts[i].distrito,
                     provincia |-> districts[i].provincia,
                     departamento |-> districts[i].departamento]],
         raised |-> bad # {}]

\* add_affected_districts: DELETE the rows of alert_id, INSERT the new ones,
\* commit; when an INSERT raises nothing is committed and the connection is
\* dropped, which rolls the DELETE back
AddAffectedDistricts(ad, alert_id, districts) ==
    IF InsertRaises(districts)
    THEN [ad |-> ad, raised |-> TRUE]
    ELSE [ad |-> SelectSeq(ad, LAMBDA r : r.alert_id # alert_id) \o
                 [i \in 1..Len(districts) |->
                     [alert_id |-> alert_id, distrito |-> districts[i].distrito,
                      provincia |-> districts[i].provincia,
                      departamento |-> districts[i].departamento]],
          raised |-> FALSE]

\* the store on its own: a sequence of calls of one AlertDatabase object
Payloads ==
    { [aviso |-> "LLUVIA", nivel |-> "ROJO", fin |-> DateStr(1), status |-> "active"],
      [aviso |-> "VIENTO", nivel |-> "NARANJA", fin |-> DateStr(2), status |-> "expired"] }
AlertDataPool ==
    { [aviso |-> p.aviso, nro |-> n, nivel |-> p.nivel, inicio |-> DateStr(d),
       fin |-> p.fin, status |-> p.status] : n \in Nros, d \in {0, 1}, p \in Payloads }

\* database.py:68-116
DbAddAlert ==
    /\ pc = "db"
    /\ last_call.n < MaxCalls
    /\ \E data \in AlertDataPool :
          LET r == AddAlert(alerts_history, db_seq, data)
          IN  /\ alerts_history' = r.hist
              /\ db_seq' = r.seq
              /\ last_call' = [n |-> last_call.n + 1, op |-> "add_alert",
                               data |-> data, ret |-> r.ret, kind |-> r.kind]
    /\ UNCHANGED <<pc, matcher_vars, file_vars, reader_seen, runs, request,
                   sched, affected_districts, save_todo>>

\* the district lists a caller passes: empty, one or two districts, the same
\* district twice, and one whose second district has no province
DistrictEntry(distrito, provincia) ==
    [distrito |-> distrito, provincia |-> provincia, departamento |-> "MOQUEGUA"]
DistrictLists ==
    { <<>>,
      <<DistrictEntry("MOQUEGUA", "MARISCAL NIETO")>>,
      <<DistrictEntry("TORATA", "MARISCAL NIETO"), DistrictEntry("ILO", "ILO")>>,
      <<DistrictEntry("ILO", "ILO"), DistrictEntry("ILO", "ILO")>>,
      <<DistrictEntry("TORATA", "MARISCAL NIETO"), DistrictEntry("ILO", NaN)>> }
\* alert_id is whatever the caller passes: foreign keys are not enforced
\* (no PRAGMA foreign_keys), so it need not be the id of a stored alert
AlertIds == {1, 2}

\* database.py:118-139
DbAddAffectedDistricts ==
    /\ pc = "db"
    /\ last_call.n < MaxCalls
    /\ \E alert_id \in AlertIds, districts \in DistrictLists :
          LET r == AddAffectedDistricts(affected_districts, alert_id, districts)
          IN  /\ affected_districts' = r.ad
              /\ last_call' = [n |-> last_call.n + 1, op |-> "add_affected_districts",
                               data |-> districts, ret |-> alert_id,
                               kind |-> IF r.raised THEN "raised" ELSE "ok"]
    /\ UNCHANGED <<pc, matcher_vars, file_vars, reader_seen, runs, request,
                   sched, alerts_history, db_seq, save_todo>>

\* UPDATE alerts_history SET status = ? WHERE nro = ?
UpdateAlertStatus(hist, nro, status) ==
    {IF r.nro = nro THEN [r EXCEPT !.status = status] ELSE r : r \in hist}

\* DELETE FROM alerts_history WHERE inicio < date('now', '-N days'); the
\* rows of affected_districts are not touched
CleanupOldAlerts(hist, day, days) ==
    {r \in hist : ~(r.inicio.k = "date" /\ r.inicio.d < day - days)}

Statuses == {"active", "expired"}
CleanupDays == {0, 1}

\* database.py:179-189
DbUpdateAlertStatus ==
    /\ pc = "db"
    /\ last_call.n < MaxCalls
    /\ \E nro \in Nros, status \in Statuses :
          /\ alerts_history' = UpdateAlertStatus(alerts_history, nro, status)
          /\ last_call' = [n |-> last_call.n + 1, op |-> "update_alert_status",
                           data |-> [nro |-> nro, status |-> status],
                           ret |-> 0, kind |-> "ok"]
    /\ UNCHANGED <<pc, matcher_vars, file_vars, reader_seen, runs, request,
                   sched, affected_districts, db_seq, save_todo>>

\* database.py:191-200
DbCleanupOldAlerts ==
    /\ pc = "db"
    /\ last_call.n < MaxCalls
    /\ \E days \in CleanupDays :
          /\ alerts_history' = CleanupOldAlerts(alerts_history, today, days)
          /\ last_call' = [n |-> last_call.n + 1, op |-> "cleanup_old_alerts",
                           data |-> [days |-> days], ret |-> 0, kind |-> "ok"]
    /\ UNCHANGED <<pc, matcher_vars, file_vars, reader_seen, runs, request,
                   sched, affected_districts, db_seq, save_todo>>

InitDb == InitCommon /\ pc = "db" /\ sched = NoSched
NextDb ==
    \/ DbAddAlert
    \/ DbAddAffectedDistricts
    \/ DbUpdateAlertStatus
    \/ DbCleanupOldAlerts
SpecDb == InitDb /\ [][NextDb]_vars

KeyUnique(hist) ==
    \A r, q \in hist : (r.nro = q.nro /\ r.inicio = q.inicio) => r = q

\* C10: alerts_history never holds two rows with the same (nro, inicio). A
\* call of add_alert whose key exists returns that row's id, keeps its id,
\* nro and inicio and overwrites aviso, nivel, fin and status with the call's
\* values, all other rows unchanged; a call with a new key adds exactly one
\* row, under an id never given before, and returns that id.
C10_UpsertKey ==
    [][ (last_call'.n = last_call.n + 1 /\ last_call'.op = "add_alert") =>
          LET d == last_call'.data
              id == last_call'.ret
              old == {r \in alerts_history : r.nro = d.nro /\ r.inicio = d.inicio}
          IN  /\ KeyUnique(alerts_history) /\ KeyUnique(alerts_history')
              /\ IF old # {}
                 THEN \E r \in old :
                        /\ id = r.id
                        /\ alerts_history' = (alerts_history \ {r}) \cup
                              {[id |-> r.id, nro |-> r.nro, inicio |-> r.inicio,
                                aviso |-> d.aviso, nivel |-> d.nivel,
                                fin |-> d.fin, status |-> d.status]}
                 ELSE /\ id > db_seq
                      /\ \A r \in alerts_history : r.id # id
                      /\ alerts_history' = alerts_history \cup
                              {[id |-> id, nro |-> d.nro, inicio |-> d.inicio,
                                aviso |-> d.aviso, nivel |-> d.nivel,
                                fin |-> d.fin, status |-> d.status]} ]_vars

\* the last call updated an existing row (its payload changed) while another
\* row with the same nro and a different inicio is stored beside it
C10_Witness ==
    /\ last_call.op = "add_alert"
    /\ last_call.kind = "update"
    /\ \E r, q \in alerts_history :
          /\ r.id = last_call.ret
          /\ r.aviso = "VIENTO"
          /\ q.nro = r.nro /\ q.inicio # r.inicio /\ q.aviso = "LLUVIA"

\* the rows of one alert_id, in rowid order, without the alert_id column
ChildRows(ad, alert_id) ==
    LET own == SelectSeq(ad, LAMBDA r : r.alert_id = alert_id)
    IN  [i \in 1..Len(own) |->
            [distrito |-> own[i].distrito, provincia |-> own[i].provincia,
             departamento |-> own[i].departamento]]

\* C11: when add_affected_districts(alert_id, D) returns, the
\* affected_districts rows of alert_id are exactly the entries of D, none
\* left from earlier calls; the rows of every other alert_id and all
\* alerts_history rows are as they were before the call.
C11_ChildReplaced ==
    [][ (last_call'.n = last_call.n + 1 /\ last_call'.op = "add_affected_districts"
         /\ last_call'.kind = "ok") =>
          /\ ChildRows(affected_districts', last_call'.ret) = last_call'.data
          /\ \A id \in AlertIds \ {last_call'.ret} :
                ChildRows(affected_districts', id) = ChildRows(affected_districts, id)
          /\ \A i \in 1..Len(affected_districts') :
                affected_districts'[i].alert_id \in AlertIds
          /\ alerts_history' = alerts_history
          /\ db_seq' = db_seq ]_vars

\* the last call replaced a non-empty child collection of its alert_id by a
\* different non-empty one while another alert_id keeps rows of its own
C11_Witness ==
    /\ last_call.op = "add_affected_districts"
    /\ last_call.kind = "ok"
    /\ last_call.n >= 3
    /\ last_call.data = <<DistrictEntry("MOQUEGUA", "MARISCAL NIETO")>>
    /\ Len(affected_districts) = 3
    /\ ChildRows(affected_districts, last_call.ret) = last_call.data
    /\ \E id \in AlertIds \ {last_call.ret} :
          Len(ChildRows(affected_districts, id)) = 2

\* C27: every affected_districts row has the id of a stored alerts_history
\* row as its alert_id, and the ids of the stored alerts are distinct ids
\* handed out by the AUTOINCREMENT sequence.
C27_ReferentialIntegrity ==
    /\ \A i \in 1..Len(affected_districts) :
          \E r \in alerts_history : r.id = affected_districts[i].alert_id
    /\ \A r, q \in alerts_history : r.id = q.id => r = q
    /\ \A r \in alerts_history : r.id \in 1..db_seq

\* C28: when an INSERT of add_affected_districts fails, the stored rows are
\* those of before the call: the rows of that alert_id are still there, in
\* their order, no row of the new list is stored, and the rows of other
\* alerts and alerts_history are untouched.
C28_AllOrNothing ==
    [][ (last_call'.n = last_call.n + 1 /\ last_call'.op = "add_affected_districts"
         /\ last_call'.kind = "raised") =>
          /\ affected_districts' = affected_districts
          /\ alerts_history' = alerts_history
          /\ db_seq' = db_seq ]_vars

\* a call whose second district was refused, after a first valid one: the
\* two districts stored for that alert_id before are the stored ones
C28_Witness ==
    /\ last_call.op = "add_affected_districts"
    /\ last_call.kind = "raised"
    /\ Len(last_call.data) = 2
    /\ NaN \notin {last_call.data[1].provincia}
    /\ NaN \in {last_call.data[2].provincia}
    /\ ChildRows(affected_districts, last_call.ret) =
          <<DistrictEntry("ILO", "ILO"), DistrictEntry("ILO", "ILO")>>

\* =====================================================================
\* main (src/src/get_alerts.py:192-220) and the readers of the flat file
\* =====================================================================
\* the header line to_csv writes first
HeaderLine ==
    [Aviso |-> "Aviso", Nro |-> "Nro", Nivel |-> "Nivel",
     Inicio |-> [k |-> "Inicio", d |-> 0], Fin |-> [k |-> "Fin", d |-> 0],
     Departamento |-> "Departamento", Provincia |-> "Provincia",
     Distrito |-> "Distrito"]

\* one data line: the cells as text; a missing value is written as an
\* empty cell (na_rep='')
CsvLine(r) ==
    [r EXCEPT !.Provincia = IF r.Provincia = NaN THEN "" ELSE r.Provincia]

\* warnings_df.to_csv(csv_path, index=False)
ToCsv(table) ==
    <<HeaderLine>> \o [i \in 1..Len(table) |-> CsvLine(table[i])]

\* a run of main starts: the bulletin, the clock and the stores are those
\* the earlier runs left; the clock may have moved on
StartRun ==
    /\ pc \in {"idle", "main_done", "raised"}
    /\ sched.pc \in {"none", "begin"}
    /\ runs < MaxRuns
    /\ runs' = runs + 1
    /\ \E t \in Todays : t >= today /\ today' = t
    /\ alerts_table' = <<>>
    /\ page' = NoPage
    /\ table_columns' = {}
    /\ active_alerts' = <<>>
    /\ moquegua_dists' = <<>>
    /\ idx' = 1
    /\ detailed_warnings' = <<>>
    /\ warnings_df' = <<>>
    /\ fetch_log' = <<>>
    /\ prev_table' = csv_file
    /\ save_todo' = <<>>
    /\ last_call' = NoCall
    /\ pc' = "table"
    /\ sched' = IF sched.pc = "begin" THEN [sched EXCEPT !.pc = "extract"]
                ELSE sched
    /\ UNCHANGED <<csv_file, csv_todo, reader_seen, request, alerts_history,
                   affected_districts, db_seq>>

\* get_alerts.py:205-207  an empty table ends the run before anything is written
MainEmpty ==
    /\ pc = "returned"
    /\ warnings_df = <<>>
    /\ pc' = "main_done"
    /\ UNCHANGED <<matcher_vars, file_vars, reader_seen, runs, request, sched,
                   db_vars>>

\* get_alerts.py:210-212  to_csv opens the file itself for writing, which
\* creates or truncates it
CsvOpen ==
    /\ pc = "returned"
    /\ warnings_df # <<>>
    /\ csv_file' = [exists |-> TRUE, lines |-> <<>>]
    /\ csv_todo' = ToCsv(warnings_df)
    /\ pc' = "csv_write"
    /\ UNCHANGED <<matcher_vars, prev_table, reader_seen, runs, request,
                   sched, db_vars>>

\* the lines reach the file in one or several flushes of the write buffer
CsvFlush ==
    /\ pc = "csv_write"
    /\ csv_todo # <<>>
    /\ \E k \in 1..Len(csv_todo) :
          /\ csv_file' = [csv_file EXCEPT !.lines = @ \o SubSeq(csv_todo, 1, k)]
          /\ csv_todo' = SubSeq(csv_todo, k + 1, Len(csv_todo))
    /\ UNCHANGED <<pc, matcher_vars, prev_table, reader_seen, runs, request,
                   sched, db_vars>>

CsvClose ==
    /\ pc = "csv_write"
    /\ csv_todo = <<>>
    /\ pc' = "save"
    /\ UNCHANGED <<matcher_vars, file_vars, reader_seen, runs, request, sched,
                   db_vars>>

\* warnings_df[['Aviso','Nro','Nivel','Inicio','Fin']].drop_duplicates()
UniqueAlerts(table) ==
    DropDuplicates([i \in 1..Len(table) |->
        [Aviso |-> table[i].Aviso, Nro |-> table[i].Nro, Nivel |-> table[i].Nivel,
         Inicio |-> table[i].Inicio, Fin |-> table[i].Fin]])

\* get_alerts.py:148-155
SaveBegin ==
    /\ pc = "save"
    /\ save_todo' = UniqueAlerts(warnings_df)
    /\ pc' = "save_loop"
    /\ UNCHANGED <<matcher_vars, file_vars, reader_seen, runs, request, sched,
                   alerts_history, affected_districts, db_seq, last_call>>

\* variant of StatusOf: an alert ending on the day itself counts as expired
StatusOfStrict(fin, day) ==
    IF ToDatetime(fin) # NaT /\ ToDatetime(fin) > day THEN "active" ELSE "expired"

\* get_alerts.py:159-160
StatusOf(fin, day) ==
    IF GeTimestamp(ToDatetime(fin), day) THEN "active" ELSE "expired"

\* get_alerts.py:174-185  the rows of the table with the alert's Nro
DistrictsOf(table, nro) ==
    LET rows == SelectSeq(table, LAMBDA r : r.Nro = nro)
    IN  [i \in 1..Len(rows) |->
            [distrito |-> rows[i].Distrito, provincia |-> rows[i].Provincia,
             departamento |-> rows[i].Departamento]]

\* variant of SaveAlert: the exception of add_affected_districts is caught
\* and the loop goes on with the next alert
SaveAlertSwallow ==
    /\ pc = "save_loop"
    /\ save_todo # <<>>
    /\ LET alert == Head(save_todo)
           data == [aviso |-> alert.Aviso, nro |-> alert.Nro, nivel |-> alert.Nivel,
                    inicio |-> alert.Inicio, fin |-> alert.Fin,
                    status |-> StatusOf(alert.Fin, today)]
           a == AddAlert(alerts_history, db_seq, data)
           d == AddAffectedDistricts(affected_districts, a.ret,
                                     DistrictsOf(warnings_df, alert.Nro))
       IN  /\ alerts_history' = a.hist
           /\ db_seq' = a.seq
           /\ affected_districts' = d.ad
           /\ last_call' = [n |-> last_call.n + 2, op |-> "add_affected_districts",
                            data |-> DistrictsOf(warnings_df, alert.Nro),
                            ret |-> a.ret,
                            kind |-> IF d.raised THEN "raised" ELSE "ok"]
           /\ pc' = pc
    /\ save_todo' = Tail(save_todo)
    /\ UNCHANGED <<today, alerts_table, page, table_columns, active_alerts,
                   moquegua_dists, idx, detailed_warnings, warnings_df,
                   fetch_log, file_vars, reader_seen, runs, request, sched>>

\* get_alerts.py:157-187  one iteration: add_alert commits, then
\* add_affected_districts commits or raises, which ends main with the error
SaveAlert ==
    /\ pc = "save_loop"
    /\ save_todo # <<>>
    /\ LET alert == Head(save_todo)
           data == [aviso |-> alert.Aviso, nro |-> alert.Nro, nivel |-> alert.Nivel,
                    inicio |-> alert.Inicio, fin |-> alert.Fin,
                    status |-> StatusOf(alert.Fin, today)]
           a == AddAlert(alerts_history, db_seq, data)
           d == AddAffectedDistricts(affected_districts, a.ret,
                                     DistrictsOf(warnings_df, alert.Nro))
       IN  /\ alerts_history' = a.hist
           /\ db_seq' = a.seq
           /\ affected_districts' = d.ad
           /\ last_call' = [n |-> last_call.n + 2, op |-> "add_affected_districts",
                            data |-> DistrictsOf(warnings_df, alert.Nro),
                            ret |-> a.ret,
                            kind |-> IF d.raised THEN "raised" ELSE "ok"]
           /\ pc' = IF d.raised THEN "raised" ELSE pc
    /\ save_todo' = Tail(save_todo)
    /\ UNCHANGED <<today, alerts_table, page, table_columns, active_alerts,
                   moquegua_dists, idx, detailed_warnings, warnings_df,
                   fetch_log, file_vars, reader_seen, runs, request, sched>>

\* get_alerts.py:152-187  the store cannot be used (sqlite3.Error: file not
\* writable, database locked, disk full): the constructor, add_alert or
\* add_affected_districts raises, nothing of the failing call is committed,
\* and the exception leaves save_to_database and main
SaveStoreError ==
    /\ \/ /\ pc = "save"
          /\ last_call' = [n |-> last_call.n + 1, op |-> "init_database",
                           data |-> <<>>, ret |-> 0, kind |-> "raised"]
          /\ UNCHANGED <<alerts_history, db_seq, save_todo>>
       \/ /\ pc = "save_loop"
          /\ save_todo # <<>>
          /\ last_call' = [n |-> last_call.n + 1, op |-> "add_alert",
                           data |-> <<>>, ret |-> 0, kind |-> "raised"]
          /\ UNCHANGED <<alerts_history, db_seq, save_todo>>
       \/ /\ pc = "save_loop"
          /\ save_todo # <<>>
          /\ LET alert == Head(save_todo)
                 data == [aviso |-> alert.Aviso, nro |-> alert.Nro,
                          nivel |-> alert.Nivel, inicio |-> alert.Inicio,
                          fin |-> alert.Fin, status |-> StatusOf(alert.Fin, today)]
                 a == AddAlert(alerts_history, db_seq, data)
             IN  /\ alerts_history' = a.hist
                 /\ db_seq' = a.seq
                 /\ last_call' = [n |-> last_call.n + 2,
                                  op |-> "add_affected_districts",
                                  data |-> DistrictsOf(warnings_df, alert.Nro),
                                  ret |-> a.ret, kind |-> "raised"]
          /\ save_todo' = Tail(save_todo)
    /\ pc' = "raised"
    /\ UNCHANGED <<matcher_vars, file_vars, reader_seen, runs, request, sched,
                   affected_districts>>

\* get_alerts.py:44, 160  pd.Timestamp.now() is read once by the filter and
\* again for every alert saved: midnight may pass while a run is under way
Tick ==
    /\ pc \notin {"idle", "main_done", "raised", "db"}
    /\ today + 1 \in Todays
    /\ today' = today + 1
    /\ UNCHANGED <<pc, alerts_table, page, table_columns, active_alerts,
                   moquegua_dists, idx, detailed_warnings, warnings_df,
                   fetch_log, file_vars, reader_seen, runs, request, sched,
                   db_vars>>

\* get_alerts.py:189, 218-220
SaveEnd ==
    /\ pc = "save_loop"
    /\ save_todo = <<>>
    /\ pc' = "main_done"
    /\ UNCHANGED <<matcher_vars, file_vars, reader_seen, runs, request, sched,
                   db_vars>>

\* streamlit_app.py:108-124 load_alerts and generate_maps.py:36-41: another
\* process reads the file as it is at that moment
ReadCsv ==
    /\ reader_seen' = csv_file
    /\ UNCHANGED <<pc, matcher_vars, file_vars, runs, request, sched, db_vars>>

\* pd.read_csv infers the type of a column from its cells: a column whose
\* cells are all digits becomes int64, so '001' is read as the number 1
\* (written here as the text of that number); an empty cell is read as NaN
ReadInt(cell) ==
    CASE cell = "001" -> "1"
      [] cell = "002" -> "2"
      [] OTHER -> cell
ReadCell(cell) == IF cell = "" THEN NaN ELSE cell

\* streamlit_app.py:116-119  read_csv, then Inicio and Fin to timestamps
LoadAlerts(f) ==
    IF ~f.exists \/ Len(f.lines) <= 1
    THEN <<>>
    ELSE [i \in 1..(Len(f.lines) - 1) |->
            LET l == f.lines[i + 1]
            IN  [Aviso |-> ReadCell(l.Aviso), Nro |-> ReadInt(l.Nro),
                 Nivel |-> ReadCell(l.Nivel),
                 Inicio |-> ToDatetime(l.Inicio), Fin |-> ToDatetime(l.Fin),
                 Departamento |-> ReadCell(l.Departamento),
                 Provincia |-> ReadCell(l.Provincia),
                 Distrito |-> ReadCell(l.Distrito)]]

\* the bulletin tables of the runs of main: empty (or unreachable source), one
\* alert, two alerts with the same number and different start dates, and a
\* table with an end date that is not a date
MainTables ==
    { <<>>,
      << MkAlert("001", DateStr(0), DateStr(1)) >>,
      << MkAlert("002", DateStr(0), DateStr(2)) >>,
      << MkAlert("001", DateStr(0), DateStr(1)), MkAlert("001", DateStr(1), DateStr(2)) >>,
      << MkAlert("002", DateStr(0), DateStr(2)), MkAlert("002", DateStr(1), GarbageStr) >> }
MainGeoms ==
    { FetchNone,
      Gdf(TRUE, << Feature("Nivel 1", Everywhere), Feature("Nivel 2", Rect(1, 1, 0, 0)),
                   Feature("Nivel 3", Rect(4, 0, 5, 1)) >>),
      Gdf(TRUE, << Feature("nivel 1", Rect(2, 0, 3, 1)) >>) }
MainProvinceTables == {ProvincesRegular, ProvincesMissing}

InitMain == InitCommon /\ pc = "idle" /\ sched = NoSched

NextMain ==
    \/ StartRun
    \/ FetchTable(MainTables)
    \/ FilterActive
    \/ LoadDistricts(MainProvinceTables)
    \/ ProcessAlert(MainGeoms)
    \/ Assemble
    \/ MainEmpty
    \/ CsvOpen
    \/ CsvFlush
    \/ CsvClose
    \/ SaveBegin
    \/ SaveAlert
    \/ SaveStoreError
    \/ SaveEnd
    \/ Tick

\* runs of main, one after the other
SpecMain == InitMain /\ [][NextMain]_vars

\* runs of main on successive days, none of them under way at midnight
NextDays ==
    \/ StartRun
    \/ FetchTable(MainTables)
    \/ FilterActive
    \/ LoadDistricts(MainProvinceTables)
    \/ ProcessAlert(MainGeoms)
    \/ Assemble
    \/ MainEmpty
    \/ CsvOpen
    \/ CsvFlush
    \/ CsvClose
    \/ SaveBegin
    \/ SaveAlert
    \/ SaveStoreError
    \/ SaveEnd

SpecDays == InitMain /\ [][NextDays]_vars

\* runs of main beside a process that reads the flat file
NextReader ==
    \/ NextMain
    \/ ReadCsv

SpecReader == InitMain /\ [][NextReader]_vars

\* the data lines of the flat file (none when the file does not exist)
DataLines(f) ==
    IF f.exists /\ Len(f.lines) > 0 THEN Tail(f.lines) ELSE <<>>

\* C8: when a run of main ends without error, the flat file holds exactly
\* the rows of the table that run produced, and no row of an earlier run.
C8_FullReplace ==
    pc = "main_done" =>
        DataLines(csv_file) = [i \in 1..Len(warnings_df) |-> CsvLine(warnings_df[i])]

\* C9: a read of the flat file returns the complete file of before the run
\* or the complete file of the table the run assembled, never less.
C9_AtomicReplace ==
    [][ (reader_seen' # reader_seen) =>
          \/ reader_seen' = prev_table
          \/ /\ pc \in {"csv_write", "save", "save_loop", "main_done", "raised"}
             /\ warnings_df # <<>>
             /\ reader_seen' = [exists |-> TRUE, lines |-> ToCsv(warnings_df)] ]_vars

\* a row of the table with its dates as the timestamps they stand for
WithTimestamps(r) ==
    [r EXCEPT !.Inicio = ToDatetime(r.Inicio), !.Fin = ToDatetime(r.Fin)]

\* C23: once main has written the table, loading the flat file gives the
\* rows of the table, field by field (dates as timestamps), a missing
\* province being missing again.
C23_RoundTrip ==
    pc = "save" =>
        Range(LoadAlerts(csv_file)) = {WithTimestamps(r) : r \in Range(warnings_df)}

\* database.py:141-151 get_active_alerts: SELECT ... WHERE status = 'active'
GetActiveAlerts(hist) == {r \in hist : r.status = "active"}

\* C24: when a run completes on day T, every alerts_history row with
\* status 'active' has an end date on or after T.
C24_NoStaleActive ==
    pc = "main_done" =>
        \A r \in GetActiveAlerts(alerts_history) :
            r.fin.k = "date" /\ r.fin.d >= today

\* the (Distrito, Provincia, Departamento) triples the table lists for the
\* alert with this number and start
TriplesOf(table, nro, inicio) ==
    { [distrito |-> r.Distrito, provincia |-> r.Provincia,
       departamento |-> r.Departamento] :
        r \in {q \in Range(table) : q.Nro = nro /\ q.Inicio = inicio} }

\* C25: when main has completed on a non-empty table, every alert
\* (Nro, Inicio) of the table has exactly one alerts_history row, and the
\* affected_districts rows of that row are the distinct triples the table
\* lists for that alert, each once and no other.
C25_FileAndHistoryAgree ==
    (pc = "main_done" /\ warnings_df # <<>>) =>
        \A t \in Range(warnings_df) :
            LET rows == {r \in alerts_history : r.nro = t.Nro /\ r.inicio = t.Inicio}
            IN  /\ Cardinality(rows) = 1
                /\ \A r \in rows :
                      LET stored == ChildRows(affected_districts, r.id)
                          listed == TriplesOf(warnings_df, t.Nro, t.Inicio)
                      IN  /\ Range(stored) = listed
                          /\ Len(stored) = Cardinality(listed)

\* C26: the history store accepts the district list of every alert of
\* every table the matcher returns, also a list with a row whose province
\* is missing: add_affected_districts raises for none of them.
C26_StoreAcceptsTable ==
    pc \in {"save", "save_loop"} =>
        \A a \in Range(UniqueAlerts(warnings_df)) :
            ~AddAffectedDistricts(affected_districts, 1,
                                  DistrictsOf(warnings_df, a.Nro)).raised

\* a step of the save loop in which add_alert returned: its row is written
RowWritten ==
    /\ pc = "save_loop"
    /\ last_call' # last_call
    /\ last_call'.op = "add_affected_districts"

\* C12: every alerts_history row save_to_database writes has status 'active'
\* when the alert's end date is on or after the day of the write (an alert
\* ending that very day is 'active') and 'expired' otherwise.
C12_StatusDerivation ==
    [][ RowWritten =>
          \E r \in alerts_history' :
             /\ r.id = last_call'.ret
             /\ r.nro = Head(save_todo).Nro
             /\ r.inicio = Head(save_todo).Inicio
             /\ r.fin = Head(save_todo).Fin
             /\ r.status = IF r.fin.k = "date" /\ r.fin.d >= today
                           THEN "active" ELSE "expired" ]_vars

\* one run wrote two rows after midnight passed: an alert that ended the day
\* before is stored as 'expired', one ending on the day of the write as 'active'
C12_Witness ==
    /\ pc = "main_done"
    /\ runs = 1
    /\ \E r, q \in alerts_history :
          /\ r.status = "expired" /\ r.fin.k = "date" /\ r.fin.d < today
          /\ q.status = "active" /\ q.fin.k = "date" /\ q.fin.d = today

\* main ended with an exception / main printed its completion message
RunFailed == pc = "raised"
RunSucceeded == pc = "main_done"
StoreFailed == last_call.kind = "raised"

\* C13: when an operation of the history store fails inside save_to_database
\* the run ends with the exception and never reports completion; a run that
\* reports completion after assembling rows has saved every alert; and a
\* run fails only for a store failure or an unparsable end date, never for
\* an alert that was skipped in the matching loop.
C13_PersistenceFailureFailsRun ==
    /\ StoreFailed => RunFailed
    /\ (RunSucceeded /\ warnings_df # <<>>) =>
          /\ last_call.kind = "ok"
          /\ save_todo = <<>>
          /\ last_call.n = 2 * Len(UniqueAlerts(warnings_df))
    /\ RunFailed =>
          \/ StoreFailed
          \/ ToDatetimeRaises(FinColumn(alerts_table))

\* a run skipped an alert whose fetch failed, matched another, wrote the
\* file, and then ended with the exception of add_affected_districts after
\* add_alert had stored the alert
C13_Witness ==
    /\ RunFailed
    /\ StoreFailed
    /\ last_call.op = "add_affected_districts"
    /\ csv_file.exists
    /\ \E i \in 1..Len(fetch_log) : FetchFailed(fetch_log[i])
    /\ \E r \in alerts_history : r.id = last_call.ret

\* =====================================================================
\* the scheduler (src/src/scheduler.py)
\* =====================================================================
\* scheduler.py:74-112  main has read the configuration and added one cron
\* job per check time; no check has run yet
Booted == [pc |-> "boot", last |-> "none"]

InitSched == InitCommon /\ pc = "idle" /\ sched = Booted

\* scheduler.py:115 and 118  run_alert_check is entered: once by main before
\* scheduler.start(), then each time a cron trigger fires.  The checks are
\* taken one after the other.
CheckBegin ==
    /\ sched.pc \in {"boot", "waiting"}
    /\ runs < MaxRuns
    /\ sched' = [sched EXCEPT !.pc = "begin"]
    /\ UNCHANGED <<pc, matcher_vars, file_vars, reader_seen, runs, request,
                   db_vars>>

\* the variant in which step 2 does not wait for step 1
MapsStartEarly ==
    /\ sched.pc = "extract"
    /\ sched' = [sched EXCEPT !.pc = "maps"]
    /\ reader_seen' = csv_file
    /\ UNCHANGED <<pc, matcher_vars, file_vars, runs, request, db_vars>>

\* scheduler.py:60-64  get_alerts_main() has returned and generate_maps_main()
\* is called; generate_maps.py:33-38 reads the flat file
MapsStart ==
    /\ sched.pc = "extract"
    /\ pc = "main_done"
    /\ sched' = [sched EXCEPT !.pc = "maps"]
    /\ reader_seen' = csv_file
    /\ UNCHANGED <<pc, matcher_vars, file_vars, runs, request, db_vars>>

\* scheduler.py:64-68  generate_maps_main() returns, the success is logged
\* and run_alert_check returns
MapsDone ==
    /\ sched.pc = "maps"
    /\ sched' = [pc |-> "waiting", last |-> "ok"]
    /\ UNCHANGED <<pc, matcher_vars, file_vars, reader_seen, runs, request,
                   db_vars>>

\* scheduler.py:64, 70-71  generate_maps_main() raises (the district
\* download, the plotting, the file system); the exception is caught and
\* logged and run_alert_check returns
MapsRaised ==
    /\ sched.pc = "maps"
    /\ sched' = [pc |-> "waiting", last |-> "error"]
    /\ UNCHANGED <<pc, matcher_vars, file_vars, reader_seen, runs, request,
                   db_vars>>

\* the variant without the except clause: the exception leaves
\* run_alert_check and ends the process
CheckFailedUncaught ==
    /\ sched.pc = "extract"
    /\ pc = "raised"
    /\ sched' = [pc |-> "crashed", last |-> "none"]
    /\ UNCHANGED <<pc, matcher_vars, file_vars, reader_seen, runs, request,
                   db_vars>>

\* scheduler.py:60, 70-71  get_alerts_main() raises; the exception is caught
\* and logged, step 2 is skipped and run_alert_check returns
CheckFailed ==
    /\ sched.pc = "extract"
    /\ pc = "raised"
    /\ sched' = [pc |-> "waiting", last |-> "error"]
    /\ UNCHANGED <<pc, matcher_vars, file_vars, reader_seen, runs, request,
                   db_vars>>

NextSched ==
    \/ CheckBegin
    \/ StartRun
    \/ FetchTable(MainTables)
    \/ FilterActive
    \/ LoadDistricts(MainProvinceTables)
    \/ ProcessAlert(MainGeoms)
    \/ Assemble
    \/ MainEmpty
    \/ CsvOpen
    \/ CsvFlush
    \/ CsvClose
    \/ SaveBegin
    \/ SaveAlert
    \/ SaveStoreError
    \/ SaveEnd
    \/ MapsStart
    \/ MapsDone
    \/ MapsRaised
    \/ CheckFailed

\* the initial check and the scheduled checks after it
SpecSched == InitSched /\ [][NextSched]_vars

\* C29: in the initial check and in every scheduled check, map generation
\* runs only after alert extraction has returned without an exception, so
\* never after extraction raised and never while the flat file of that
\* check is still being written: what it reads is the complete file.
C29_ExtractionBeforeMaps ==
    sched.pc = "maps" =>
        /\ pc = "main_done"
        /\ csv_todo = <<>>
        /\ reader_seen = csv_file
        /\ warnings_df # <<>> =>
              reader_seen = [exists |-> TRUE, lines |-> ToCsv(warnings_df)]

\* map generation runs in a scheduled check, after an earlier check that
\* failed, and reads the rows this check's extraction has just written
C29_Witness ==
    /\ sched.pc = "maps"
    /\ runs = 2
    /\ sched.last = "error"
    /\ warnings_df # <<>>
    /\ Len(reader_seen.lines) > 1

\* the bulletins and layers of the checks followed to their end: an empty
\* bulletin, one alert in force, one alert whose end date cannot be parsed;
\* no layer, or a layer over the whole department
CheckTables ==
    { <<>>,
      << MkAlert("001", DateStr(0), DateStr(1)) >>,
      << MkAlert("002", DateStr(0), GarbageStr) >> }
CheckGeoms ==
    { FetchNone,
      Gdf(TRUE, << Feature("Nivel 2", Everywhere) >>) }

NextChecks ==
    \/ CheckBegin
    \/ StartRun
    \/ FetchTable(CheckTables)
    \/ FilterActive
    \/ LoadDistricts(MainProvinceTables)
    \/ ProcessAlert(CheckGeoms)
    \/ Assemble
    \/ MainEmpty
    \/ CsvOpen
    \/ CsvFlush
    \/ CsvClose
    \/ SaveBegin
    \/ SaveAlert
    \/ SaveStoreError
    \/ SaveEnd
    \/ MapsStart
    \/ MapsDone
    \/ MapsRaised
    \/ CheckFailed

\* the cron triggers keep firing and a step that is under way completes
\* (every request of a check has a timeout)
SpecSchedFair == InitSched /\ [][NextChecks]_vars /\ WF_vars(NextChecks)

\* the scheduler process is running: in main before the initial check, in a
\* check, or blocked in scheduler.start() between two checks
SchedulerRuns == sched.pc \in {"boot", "begin", "extract", "maps", "waiting"}

\* the check numbered k has ended with the error logged
CheckFailedAt(k) == sched.pc = "waiting" /\ sched.last = "error" /\ runs = k

\* C30: a failing check never stops the scheduler: an exception of alert
\* extraction or of map generation is caught and logged inside
\* run_alert_check, which returns, and the next scheduled check is executed.
C30_FailureDoesNotStopScheduler ==
    /\ [](SchedulerRuns)
    /\ []((sched.pc = "waiting" /\ pc = "raised") => sched.last = "error")
    /\ \A k \in 1..(MaxRuns - 1) :
          CheckFailedAt(k) ~> (runs = k + 1 /\ sched.pc = "extract")

\* the first check failed and was logged; the second check is executed and
\* its extraction raises in turn
C30_Witness ==
    /\ runs = 2
    /\ sched.pc = "extract"
    /\ sched.last = "error"
    /\ pc = "raised"
====
